---- MODULE Spec2Model ----
(***************************************************************************)
(* The dataref request/response clients of xplane-udp-bridge:              *)
(*   - the Go client (client/go/main/dataref.go, udp.go): DataRefReader    *)
(*     Read / ReadAsFloat over UdpClient.SendAndRecv;                      *)
(*   - the Flutter client (client/flutters/lib/viewmodel/dataref.dart):    *)
(*     DataRefViewModel.readFromUDPServer / parse.                         *)
(*                                                                         *)
(* A string is a sequence of atoms.  The atom "|" is the field separator;  *)
(* the characters of a numeric literal ("0".."9", "-", "+", ".", ",") are  *)
(* atoms of their own, so that splitting and number parsing are computed;  *)
(* a word that is never looked into ("dataref", a dataref name, one group  *)
(* of a uuid) is one atom.                                                 *)
(***************************************************************************)
EXTENDS Integers, Sequences, FiniteSets, TLC

VARIABLES
    program,     \* which client program this run is of: "go" or "flutter"
    call,        \* the last call of an entry point (Go Read, ReadAsFloat; Dart readFromUDPServer, parse)
    requestIds,  \* DataRefViewModel.requestIds: requestId -> dataref name
    di,          \* readFromUDPServer: index of the next dataref of the for loop (0: no loop running)
    dlast,       \* the last request readFromUDPServer handed to _udpViewModel.send
    gpc,         \* per Go caller: where it is in SendAndRecv ("idle", "deadline", "read")
    gcur,        \* per Go caller: the read it is in
    gret,        \* per Go caller: what its last read returned
    wire,        \* the datagrams between the Go client and the responder
    now,         \* the clock
    deadline,    \* the read deadline of the UdpClient's connection
    nseq,        \* the number of requests the Go client has written
    noDeadline,  \* whether the connection refuses deadlines (closed, or not pollable)
    timedOut,    \* the numbers of the requests whose read ended in a timeout
    socket,      \* UdpClient._socket of the Flutter client: "null" or "bound"
    isRunning,   \* UdpViewModel._isRunning
    binding,     \* the calls of UdpViewModel.start that await _client.bind()
    messages,    \* UdpViewModel._messages
    fwire,       \* the datagrams on their way to or from the Flutter client
    sockets      \* how many sockets RawDatagramSocket.bind has bound for the Flutter client

codecVars == <<call, requestIds, di, dlast>>

netVars == <<gpc, gcur, gret, wire, now, deadline, nseq, noDeadline, timedOut>>

appVars == <<socket, isRunning, binding, messages, fwire, sockets>>

vars == <<program, call, requestIds, di, dlast,
          gpc, gcur, gret, wire, now, deadline, nseq, noDeadline, timedOut,
          socket, isRunning, binding, messages, fwire, sockets>>

----------------------------------------------------------------------------
(* Strings *)

Pipe == "|"

EmptyString == <<>>

\* strings.Split(s, "|") in Go, s.split('|') in Dart: the fields between the
\* separators, at least one field (the whole string when it has no separator).
RECURSIVE Split(_)
Split(s) ==
    IF \A i \in 1..Len(s) : s[i] # Pipe
    THEN <<s>>
    ELSE LET k == CHOOSE i \in 1..Len(s) :
                      s[i] = Pipe /\ \A j \in 1..(i - 1) : s[j] # Pipe
         IN  <<SubSeq(s, 1, k - 1)>> \o Split(SubSeq(s, k + 1, Len(s)))

\* The fields of a datagram written with "|" between them (what a responder or
\* a test writes down as a|b|c).
RECURSIVE JoinFields(_)
JoinFields(fs) ==
    IF Len(fs) = 0 THEN EmptyString
    ELSE IF Len(fs) = 1 THEN fs[1]
    ELSE fs[1] \o <<Pipe>> \o JoinFields(Tail(fs))

\* The function f of domain 1..n as the sequence of its values.
AsSeq(f, n) == SubSeq(f, 1, n)

\* String.replaceAll('-', ''): every "-" removed.
RemoveDashes(s) == SelectSeq(s, LAMBDA a : a # "-")

----------------------------------------------------------------------------
(* strconv.ParseFloat(s, 32): the literal is read as readFloat and special   *)
(* read it, and its value is rounded to the nearest float32, ties to even.   *)
(* A float32 is sign, odd mantissa and binary exponent: mant * 2^exp.        *)

Digits == {"0", "1", "2", "3", "4", "5", "6", "7", "8", "9"}

DigitVal(c) ==
    CASE c = "0" -> 0 [] c = "1" -> 1 [] c = "2" -> 2 [] c = "3" -> 3
      [] c = "4" -> 4 [] c = "5" -> 5 [] c = "6" -> 6 [] c = "7" -> 7
      [] c = "8" -> 8 [] c = "9" -> 9

RECURSIVE DigitsToInt(_)
DigitsToInt(ds) ==
    IF Len(ds) = 0 THEN 0
    ELSE 10 * DigitsToInt(SubSeq(ds, 1, Len(ds) - 1)) + DigitVal(ds[Len(ds)])

UpperLetters ==
    <<"A", "B", "C", "D", "E", "F", "G", "H", "I", "J", "K", "L", "M",
      "N", "O", "P", "Q", "R", "S", "T", "U", "V", "W", "X", "Y", "Z">>

LowerLetters ==
    <<"a", "b", "c", "d", "e", "f", "g", "h", "i", "j", "k", "l", "m",
      "n", "o", "p", "q", "r", "s", "t", "u", "v", "w", "x", "y", "z">>

\* lower(c): an upper-case letter as its lower-case letter.
Lower(c) ==
    IF \E i \in 1..26 : UpperLetters[i] = c
    THEN LowerLetters[CHOOSE i \in 1..26 : UpperLetters[i] = c]
    ELSE c

LowerString(s) == AsSeq([i \in 1..Len(s) |-> Lower(s[i])], Len(s))

HexLetters == {"a", "b", "c", "d", "e", "f"}

IsHexDigit(c) == c \in Digits \/ Lower(c) \in HexLetters

HexVal(c) ==
    IF c \in Digits THEN DigitVal(c)
    ELSE CASE Lower(c) = "a" -> 10 [] Lower(c) = "b" -> 11 [] Lower(c) = "c" -> 12
           [] Lower(c) = "d" -> 13 [] Lower(c) = "e" -> 14 [] Lower(c) = "f" -> 15

\* The float32 values.
Num(neg, mant, exp) == [kind |-> "num", neg |-> neg, mant |-> mant, exp |-> exp]

Inf(neg) == [kind |-> "inf", neg |-> neg, mant |-> 0, exp |-> 0]

NaN == [kind |-> "nan", neg |-> FALSE, mant |-> 0, exp |-> 0]

\* mant * 2^exp with the mantissa made odd, so that equal values are equal
\* records; zero keeps its sign.
RECURSIVE Normal(_, _, _)
Normal(neg, mant, exp) ==
    IF mant = 0 THEN Num(neg, 0, 0)
    ELSE IF mant % 2 = 0 THEN Normal(neg, mant \div 2, exp + 1)
    ELSE Num(neg, mant, exp)

\* The float32 of an integer constant of less than 2^24.
Float32(n) == IF n < 0 THEN Normal(TRUE, 0 - n, 0) ELSE Normal(FALSE, n, 0)

RECURSIVE BitsToInt(_)
BitsToInt(bs) ==
    IF Len(bs) = 0 THEN 0
    ELSE 2 * BitsToInt(SubSeq(bs, 1, Len(bs) - 1)) + bs[Len(bs)]

StripZeros(ds) ==
    IF \A i \in 1..Len(ds) : ds[i] = 0 THEN << >>
    ELSE SubSeq(ds, CHOOSE i \in 1..Len(ds) : ds[i] # 0 /\ \A j \in 1..(i - 1) : ds[j] = 0,
                Len(ds))

Zeros(n) == AsSeq([i \in 1..n |-> 0], n)

\* Half of the decimal integer ds (digit by digit, the remainder dropped).
HalfDigits(ds) ==
    AsSeq([i \in 1..Len(ds) |->
              (ds[i] + (IF i > 1 /\ ds[i - 1] % 2 = 1 THEN 10 ELSE 0)) \div 2], Len(ds))

\* Twice the decimal fraction 0.ds, without its carry into the units.
DoubleDigits(ds) ==
    AsSeq([i \in 1..Len(ds) |->
              (2 * ds[i] + (IF i < Len(ds) /\ ds[i + 1] >= 5 THEN 1 ELSE 0)) % 10], Len(ds))

\* The decimal integer ds divided by 2^n: the quotient, and the n binary digits
\* of the remainder, the highest first.
RECURSIVE LowBitsStep(_, _)
LowBitsStep(ds, n) ==
    IF Len(ds) = 0 \/ n = 0 THEN [bits |-> Zeros(n), quot |-> ds]
    ELSE LET r == LowBitsStep(HalfDigits(ds), n - 1)
         IN  [bits |-> r.bits \o <<ds[Len(ds)] % 2>>, quot |-> r.quot]

\* The same sixteen digits at a time, which keeps the evaluation shallow.
RECURSIVE LowBits(_, _)
LowBits(ds, n) ==
    IF Len(ds) = 0 \/ n <= 16 THEN LowBitsStep(ds, n)
    ELSE LET lo == LowBitsStep(ds, 16)
             hi == LowBits(lo.quot, n - 16)
         IN  [bits |-> hi.bits \o lo.bits, quot |-> hi.quot]

\* The binary digits of the decimal integer ds, the highest first: a number of
\* k decimal digits has at most 4k binary ones.
IntBits(ds) == StripZeros(LowBits(ds, 4 * Len(ds)).bits)

\* The first n binary digits of the decimal fraction 0.ds, and what is left.
RECURSIVE FracBitsStep(_, _)
FracBitsStep(ds, n) ==
    IF (\A i \in 1..Len(ds) : ds[i] = 0) \/ n = 0 THEN [bits |-> Zeros(n), rest |-> ds]
    ELSE LET r == FracBitsStep(DoubleDigits(ds), n - 1)
         IN  [bits |-> <<IF ds[1] >= 5 THEN 1 ELSE 0>> \o r.bits, rest |-> r.rest]

\* The same sixteen digits at a time.
RECURSIVE FracBits(_, _)
FracBits(ds, n) ==
    IF (\A i \in 1..Len(ds) : ds[i] = 0) \/ n <= 16 THEN FracBitsStep(ds, n)
    ELSE LET hi == FracBitsStep(ds, 16)
             lo == FracBits(hi.rest, n - 16)
         IN  [bits |-> hi.bits \o lo.bits, rest |-> lo.rest]

\* The float32 nearest to the value whose binary digits from its first 1, at
\* the position top (2^top), are bits, with more non-zero digits below them or
\* not: 24 digits of mantissa, fewer below 2^-126, ties to the even mantissa;
\* a range error and an infinity from 2^128 on, zero below 2^-150.
Round32(neg, top, bits, more) ==
    IF top > 127 THEN [err |-> TRUE, value |-> Inf(neg)]
    ELSE IF top < -150 THEN [err |-> FALSE, value |-> Num(neg, 0, 0)]
    ELSE LET q      == IF top - 23 > -149 THEN top - 23 ELSE -149
             nm     == top - q + 1
             bit(i) == IF i <= Len(bits) THEN bits[i] ELSE 0
             m      == BitsToInt(AsSeq([i \in 1..nm |-> bit(i)], nm))
             sticky == more \/ \E i \in (nm + 2)..Len(bits) : bits[i] = 1
             up     == bit(nm + 1) = 1 /\ (sticky \/ m % 2 = 1)
             r      == IF up THEN m + 1 ELSE m
         IN  IF r = 16777216 /\ q = 104 THEN [err |-> TRUE, value |-> Inf(neg)]
             ELSE [err |-> FALSE, value |-> Normal(neg, r, q)]

\* The float32 of the number whose integer part has the binary digits ib and
\* whose fraction has the first binary digits fb.bits, fb.rest being left.
RoundParts(neg, ib, fb) ==
    LET bits == StripZeros(ib \o fb.bits)
        more == \E i \in 1..Len(fb.rest) : fb.rest[i] # 0
    IN  IF Len(bits) = 0 THEN [err |-> FALSE, value |-> Num(neg, 0, 0)]
        ELSE Round32(neg, Len(bits) - Len(fb.bits) - 1, bits, more)

\* The same from the decimal digits of the fraction: 25 binary digits of it
\* decide the rounding next to an integer part, 175 without one.
RoundBits(neg, ib, frac) ==
    RoundParts(neg, ib, FracBits(frac, IF Len(ib) > 0 THEN 25 ELSE 175))

\* The float32 of the decimal number d * 10^dexp, d its digits from the first
\* that is not zero.  A number of 10^39 or more is out of range, one below
\* 10^-46 rounds to zero.
RoundDigits(neg, d, dexp) ==
    LET n == Len(d)
    IN  IF n = 0 THEN [err |-> FALSE, value |-> Num(neg, 0, 0)]
        ELSE IF n + dexp > 39 THEN [err |-> TRUE, value |-> Inf(neg)]
        ELSE IF n + dexp < -45 THEN [err |-> FALSE, value |-> Num(neg, 0, 0)]
        ELSE RoundBits(neg,
                       IntBits(IF dexp >= 0 THEN d \o Zeros(dexp)
                               ELSE IF 0 - dexp >= n THEN << >>
                               ELSE SubSeq(d, 1, n + dexp)),
                       IF dexp >= 0 THEN << >>
                       ELSE IF 0 - dexp >= n THEN Zeros(0 - dexp - n) \o d
                       ELSE SubSeq(d, n + dexp + 1, n))

\* The float32 of the decimal number ds * 10^dexp (ds its digits).
RoundDecimal(neg, ds, dexp) == RoundDigits(neg, StripZeros(ds), dexp)

\* The binary digits of the hexadecimal digits hs.
HexBits(hs) ==
    AsSeq([i \in 1..(4 * Len(hs)) |->
              (HexVal(hs[(i + 3) \div 4]) \div (CASE i % 4 = 1 -> 8 [] i % 4 = 2 -> 4
                                                  [] i % 4 = 3 -> 2 [] OTHER -> 1)) % 2],
          4 * Len(hs))

\* The float32 of the hexadecimal number hs * 2^bexp (hs its digits).
RoundHex(neg, hs, bexp) ==
    LET bits == StripZeros(HexBits(hs))
    IN  IF Len(bits) = 0 THEN [err |-> FALSE, value |-> Num(neg, 0, 0)]
        ELSE Round32(neg, Len(bits) - 1 + bexp, bits, FALSE)

\* The exponent's digits as a number: no digit is added from 10000 on.
RECURSIVE ExpToInt(_)
ExpToInt(ds) ==
    IF Len(ds) = 0 THEN 0
    ELSE LET e == ExpToInt(SubSeq(ds, 1, Len(ds) - 1))
         IN  IF e < 10000 THEN e * 10 + DigitVal(ds[Len(ds)]) ELSE e

\* underscoreOK: every "_" of the number b stands between two digits, or
\* between the base prefix and a digit.
UnderscoreOK(b, hex) ==
    LET first == IF hex THEN 3 ELSE 1
        dig(c) == IF hex THEN IsHexDigit(c) ELSE c \in Digits
    IN  \A i \in first..Len(b) :
            b[i] = "_" =>
                /\ IF i = first THEN hex ELSE dig(b[i - 1])
                /\ i < Len(b)
                /\ dig(b[i + 1])

\* special: "inf" or "infinity" with or without a sign, "nan" without one, in
\* any case of the letters.
Special(s) ==
    LET signed == Len(s) > 0 /\ s[1] \in {"+", "-"}
        b      == LowerString(IF signed THEN Tail(s) ELSE s)
    IN  IF b = <<"i", "n", "f">> \/ b = <<"i", "n", "f", "i", "n", "i", "t", "y">>
        THEN [ok |-> TRUE, value |-> Inf(signed /\ s[1] = "-")]
        ELSE IF ~signed /\ b = <<"n", "a", "n">>
        THEN [ok |-> TRUE, value |-> NaN]
        ELSE [ok |-> FALSE, value |-> NaN]

\* readFloat from the end of the mantissa on, and the conversion of what it
\* read: the mantissa is b from first to end - 1, with at most one "." and at
\* least one digit; the exponent is e or p (of a hexadecimal mantissa, which
\* must have one), a sign or none, and decimal digits.  err is ErrSyntax or
\* ErrRange.
ReadExponent(neg, b, hex, first, end) ==
    LET mant    == SubSeq(b, first, end - 1)
        digs    == SelectSeq(mant, LAMBDA c : c \notin {"_", "."})
        dots    == {i \in 1..Len(mant) : mant[i] = "."}
        before  == IF dots = {} THEN Len(digs)
                   ELSE Len(SelectSeq(SubSeq(mant, 1, (CHOOSE i \in dots : TRUE) - 1),
                                      LAMBDA c : c # "_"))
        hasExp  == end <= Len(b) /\ Lower(b[end]) = (IF hex THEN "p" ELSE "e")
        esigned == hasExp /\ end < Len(b) /\ b[end + 1] \in {"+", "-"}
        eneg    == esigned /\ b[end + 1] = "-"
        efirst  == IF esigned THEN end + 2 ELSE end + 1
        etext   == SubSeq(b, efirst, Len(b))
        expOk   == /\ Len(etext) > 0
                   /\ etext[1] \in Digits
                   /\ \A i \in 1..Len(etext) : etext[i] \in Digits \cup {"_"}
        e       == IF hasExp /\ expOk
                   THEN LET v == ExpToInt(SelectSeq(etext, LAMBDA c : c # "_"))
                        IN  IF eneg THEN 0 - v ELSE v
                   ELSE 0
        ok      == /\ Len(digs) > 0
                   /\ IF hasExp THEN expOk ELSE end = Len(b) + 1 /\ ~hex
                   /\ UnderscoreOK(b, hex)
    IN  IF ~ok THEN [err |-> TRUE, value |-> Num(FALSE, 0, 0)]
        ELSE IF hex
        THEN RoundHex(neg, digs, e - 4 * (Len(digs) - before))
        ELSE RoundDecimal(neg, AsSeq([i \in 1..Len(digs) |-> DigitVal(digs[i])], Len(digs)),
                          e - (Len(digs) - before))

\* readFloat over the mantissa of the number b (its sign taken off): digits,
\* hexadecimal after 0x, underscores and the first ".".
ReadMantissa(neg, b, hex) ==
    LET first   == IF hex THEN 3 ELSE 1
        inMant(i) == \/ b[i] = "_"
                     \/ b[i] \in Digits
                     \/ hex /\ IsHexDigit(b[i])
                     \/ b[i] = "." /\ \A j \in first..(i - 1) : b[j] # "."
        stops   == {i \in first..Len(b) : ~inMant(i)}
    IN  ReadExponent(neg, b, hex, first,
                     IF stops = {} THEN Len(b) + 1
                     ELSE CHOOSE i \in stops : \A j \in stops : i <= j)

\* readFloat: [sign] mantissa [exponent], the mantissa decimal or, after 0x,
\* hexadecimal.
ReadNumber(neg, b) == ReadMantissa(neg, b, Len(b) > 2 /\ b[1] = "0" /\ Lower(b[2]) = "x")

ReadFloat(s) ==
    ReadNumber(Len(s) > 0 /\ s[1] = "-",
               IF Len(s) > 0 /\ s[1] \in {"+", "-"} THEN Tail(s) ELSE s)

\* strconv.ParseFloat(s, 32): the value and whether err != nil.  A range error
\* comes with an infinity, a syntax error with zero.
ParseFloat(s) ==
    IF Special(s).ok THEN [err |-> FALSE, value |-> Special(s).value]
    ELSE ReadFloat(s)

----------------------------------------------------------------------------
(* net.ParseIP, and NewUdpClient (client/go/main/udp.go) *)

\* The fields of s between its separators sep: one more field than separators.
SplitAt(s, sep) ==
    LET seps == {i \in 1..Len(s) : s[i] = sep}
        n == Cardinality(seps) + 1
        At(k) == CHOOSE i \in seps : Cardinality({j \in seps : j < i}) = k - 1
    IN  [k \in 1..n |->
            SubSeq(s, IF k = 1 THEN 1 ELSE At(k - 1) + 1,
                      IF k = n THEN Len(s) ELSE At(k) - 1)]

SplitDots(s) == SplitAt(s, ".")

\* A dotted-decimal IPv4 literal: four fields, each one to three digits
\* without a leading zero and at most 255.
ParseIPv4(s) ==
    LET parts == SplitDots(s)
        okField(f) == /\ Len(f) \in 1..3
                      /\ \A i \in 1..Len(f) : f[i] \in Digits
                      /\ Len(f) > 1 => f[1] # "0"
                      /\ DigitsToInt(f) <= 255
    IN  IF Len(parts) = 4 /\ \A i \in 1..4 : okField(parts[i])
        THEN [ok |-> TRUE, bytes |-> [i \in 1..4 |-> DigitsToInt(parts[i])]]
        ELSE [ok |-> FALSE, bytes |-> << >>]

RECURSIVE HexToInt(_)
HexToInt(hs) ==
    IF Len(hs) = 0 THEN 0
    ELSE 16 * HexToInt(SubSeq(hs, 1, Len(hs) - 1)) + HexVal(hs[Len(hs)])

\* How an IPv6 literal of n fields uses "::", by its empty fields: not at all,
\* as the whole literal, at its start, at its end, or between groups.
V6Shape(n, empties) ==
    CASE empties = {} -> "none"
      [] n = 3 /\ empties = {1, 2, 3} -> "all"
      [] n >= 3 /\ empties = {1, 2} -> "lead"
      [] n >= 3 /\ empties = {n - 1, n} -> "trail"
      [] \E k \in 2..(n - 1) : empties = {k} -> "mid"
      [] OTHER -> "bad"

\* The sixteen bytes: the first a of the groups, zeros for the "::", the other
\* groups and the bytes of the IPv4 literal v4 (none when there is none).
V6Bytes(shape, groups, a, v4) ==
    LET okGroup(g) == Len(g) \in 1..4 /\ \A i \in 1..Len(g) : IsHexDigit(g[i])
        size    == 2 * Len(groups) + Len(v4.bytes)
        tail    == 2 * (Len(groups) - a) + Len(v4.bytes)
        GroupByte(g, hi) == IF hi THEN HexToInt(g) \div 256 ELSE HexToInt(g) % 256
        byte(i) == IF i <= 2 * a THEN GroupByte(groups[(i + 1) \div 2], i % 2 = 1)
                   ELSE IF i <= 16 - tail THEN 0
                   ELSE IF i > 16 - Len(v4.bytes) THEN v4.bytes[i - (16 - Len(v4.bytes))]
                   ELSE LET j == i - (16 - tail)
                        IN  GroupByte(groups[a + (j + 1) \div 2], j % 2 = 1)
        ok      == /\ shape # "bad"
                   /\ v4.ok
                   /\ \A k \in 1..Len(groups) : okGroup(groups[k])
                   /\ IF shape = "none" THEN size = 16 ELSE size <= 14
    IN  IF ok THEN [ok |-> TRUE, bytes |-> AsSeq([i \in 1..16 |-> byte(i)], 16)]
        ELSE [ok |-> FALSE, bytes |-> << >>]

\* The fields that are not empty, npre of them before the "::": the last may
\* be an IPv4 literal, though not before a "::" that ends the literal.
V6Groups(shape, npre, all) ==
    LET hasV4 == Len(all) > 0 /\ \E i \in 1..Len(all[Len(all)]) : all[Len(all)][i] = "."
    IN  V6Bytes(IF hasV4 /\ shape = "trail" THEN "bad" ELSE shape,
                IF hasV4 THEN SubSeq(all, 1, Len(all) - 1) ELSE all,
                IF hasV4 /\ shape = "none" THEN npre - 1 ELSE npre,
                IF hasV4 THEN ParseIPv4(all[Len(all)]) ELSE [ok |-> TRUE, bytes |-> << >>])

\* The fields between the colons, and which of them are empty.
V6Fields(fields, empties) ==
    LET n     == Len(fields)
        shape == V6Shape(n, empties)
        cut   == IF shape = "mid" THEN CHOOSE k \in empties : TRUE ELSE 0
        pre   == CASE shape = "none" -> fields
                   [] shape = "trail" -> SubSeq(fields, 1, n - 2)
                   [] shape = "mid" -> SubSeq(fields, 1, cut - 1)
                   [] OTHER -> << >>
        post  == CASE shape = "lead" -> SubSeq(fields, 3, n)
                   [] shape = "mid" -> SubSeq(fields, cut + 1, n)
                   [] OTHER -> << >>
    IN  V6Groups(shape, Len(pre), pre \o post)

V6Split(fields) == V6Fields(fields, {k \in 1..Len(fields) : fields[k] = << >>})

\* An IPv6 literal (it has a ":"): groups of one to four hexadecimal digits
\* between colons, at most once a "::" that stands for one or more groups of
\* zeros, and in the place of the last two groups possibly an IPv4 literal;
\* sixteen bytes in all.
ParseIPv6(s) == V6Split(SplitAt(s, ":"))

\* net.ParseIP(host): the sixteen bytes of an IPv4 literal (as the IPv4-mapped
\* address ::ffff:a.b.c.d) or of an IPv6 literal without a zone; nil for every
\* other text (a host name, the empty string).  The first "." or ":" tells
\* which of the two the text is read as.
ParseIP(host) ==
    LET marks == {i \in 1..Len(host) : host[i] \in {".", ":"}}
        v     == IF marks = {} \/ \E i \in 1..Len(host) : host[i] = "%"
                 THEN [ok |-> FALSE, bytes |-> << >>]
                 ELSE IF host[CHOOSE i \in marks : \A j \in marks : i <= j] = "."
                 THEN LET p == ParseIPv4(host)
                      IN  [ok |-> p.ok,
                           bytes |-> IF p.ok THEN Zeros(10) \o <<255, 255>> \o p.bytes
                                     ELSE << >>]
                 ELSE ParseIPv6(host)
    IN  [nil |-> ~v.ok, ip |-> v.bytes]

\* IP.To4(): the four bytes of an IPv4 or IPv4-mapped address.
To4(ip) ==
    IF Len(ip) = 16 /\ (\A i \in 1..10 : ip[i] = 0) /\ ip[11] = 255 /\ ip[12] = 255
    THEN SubSeq(ip, 13, 16)
    ELSE << >>

\* The address a connected UDP socket reaches for the remote address raddr:
\* a nil IP is the unspecified address, which stands for the local system.
RemoteOf(raddr) ==
    IF raddr.IP.nil THEN <<0, 0, 0, 0>>
    ELSE IF To4(raddr.IP.ip) # << >> THEN To4(raddr.IP.ip)
    ELSE raddr.IP.ip

\* net.DialUDP("udp", nil, raddr): an error for a port that is no UDP port or
\* when the system refuses the socket (sysErr: no descriptor left, no network),
\* a connected socket otherwise.
DialUDP(raddr, sysErr) ==
    IF sysErr \/ raddr.Port \notin 0..65535
    THEN [err |-> TRUE, remote |-> << >>, port |-> 0]
    ELSE [err |-> FALSE, remote |-> RemoteOf(raddr), port |-> raddr.Port]

\* NewUdpClient(host, port, timeoutSecs): nil, or the client.
NewUdpClient(host, port, timeoutSecs, sysErr) ==
    LET serverAddr == [IP |-> ParseIP(host), Port |-> port]
        connection == DialUDP(serverAddr, sysErr)
    IN  IF connection.err
        THEN [kind |-> "return", nil |-> TRUE, connection |-> connection, timeout |-> 0]
        ELSE [kind |-> "return", nil |-> FALSE, connection |-> connection,
              timeout |-> timeoutSecs]

----------------------------------------------------------------------------
(* The Go client: DataRefReader (client/go/main/dataref.go) *)

InvalidDataRefFloatValue == -666

\* What SendAndRecv returns: nil, or the bytes of one datagram.
NilResponse == [nil |-> TRUE, bytes |-> EmptyString]

Bytes(b) == [nil |-> FALSE, bytes |-> b]

\* fmt.Sprintf("dataref|read|%s|%s", dataType, dataref)
ReadRequest(dataref, dataType) ==
    <<"dataref", Pipe, "read", Pipe>> \o dataType \o <<Pipe>> \o dataref

\* fmt.Sprintf("dataref|read|float|%s", dataref)
ReadAsFloatRequest(dataref) ==
    <<"dataref", Pipe, "read", Pipe, "float", Pipe>> \o dataref

\* The index expression strings.Split(body, "|")[2]: the third field, or a
\* run-time panic (index out of range) when there are fewer than three.
SplitIndex2(body) ==
    LET parts == Split(body)
    IN  IF Len(parts) < 3 THEN [panic |-> TRUE, value |-> EmptyString]
        ELSE [panic |-> FALSE, value |-> parts[3]]

\* Read returning a placeholder value when SendAndRecv returned nil.
ReadReturn_Placeholder(response) ==
    IF response.nil THEN [kind |-> "return", failed |-> TRUE, str |-> <<"0">>]
    ELSE LET parts == Split(response.bytes)
         IN  IF Len(parts) < 3 THEN [kind |-> "panic", failed |-> TRUE, str |-> EmptyString]
             ELSE [kind |-> "return", failed |-> FALSE, str |-> parts[3]]

\* DataRefReader.Read from the return of SendAndRecv on.  `failed` tells the
\* return that reports "read failed" from the one that returns the value.
ReadReturn(response) ==
    IF response.nil THEN [kind |-> "return", failed |-> TRUE, str |-> EmptyString]
    ELSE LET v == SplitIndex2(response.bytes)
         IN  IF v.panic THEN [kind |-> "panic", failed |-> TRUE, str |-> EmptyString]
             ELSE [kind |-> "return", failed |-> FALSE, str |-> v.value]

\* DataRefReader.ReadAsFloat from the return of SendAndRecv on.  `failed` tells
\* the returns of InvalidDataRefFloatValue from the return of the parsed value.
ReadAsFloatReturn(response) ==
    LET invalid == Float32(InvalidDataRefFloatValue)
    IN  IF response.nil
        THEN [kind |-> "return", failed |-> TRUE, float |-> invalid]
        ELSE LET v == SplitIndex2(response.bytes)
             IN  IF v.panic THEN [kind |-> "panic", failed |-> TRUE, float |-> invalid]
                 ELSE LET p == ParseFloat(v.value)
                      IN  IF p.err
                          THEN [kind |-> "return", failed |-> TRUE, float |-> invalid]
                          ELSE [kind |-> "return", failed |-> FALSE, float |-> p.value]

----------------------------------------------------------------------------
(* The Flutter client: DataRefViewModel (client/flutters/lib/viewmodel/dataref.dart) *)

\* DataRefViewModel.datarefs
datarefs == <<
    [name |-> <<"sim/cockpit2/controls/parking_brake_ratio">>,
     datatype |-> <<"float">>, description |-> <<"Parking Brake Ratio">>],
    [name |-> <<"sim/cockpit2/engine/actuators/throttle_ratio">>,
     datatype |-> <<"float">>, description |-> <<"Throttle Ratio">>],
    [name |-> <<"sim/cockpit2/engine/actuators/eng_master">>,
     datatype |-> <<"[int]">>, description |-> <<"Engine Master">>],
    [name |-> <<"sim/cockpit2/electrical/battery_on">>,
     datatype |-> <<"[int]">>, description |-> <<"Battery On">>] >>

\* The values Uuid().v4() may return: groups of hex digits with "-" between
\* them (two groups of the five stand for all).
UuidGroups1 == {"0a", "1b"}

UuidGroups2 == {"4c", "4d"}

Uuids == {<<g, "-", h>> : g \in UuidGroups1, h \in UuidGroups2}

\* _generateRequestId, for the uuid that Uuid().v4() returned.
GenerateRequestId(uuid) == RemoveDashes(uuid)

\* The request with the type and the name in each other's place.
RequestData_Swapped(requestId, dataref) ==
    requestId \o <<Pipe, "dataref", Pipe, "read", Pipe>>
        \o dataref.name \o <<Pipe>> \o dataref.datatype

\* The request without its request id: the legacy form.
RequestData_Legacy(requestId, dataref) ==
    <<"dataref", Pipe, "read", Pipe>> \o dataref.datatype \o <<Pipe>> \o dataref.name

\* The request string of readFromUDPServer:
\* '$requestId|dataref|read|${dataref.datatype}|${dataref.name}'
RequestData(requestId, dataref) ==
    requestId \o <<Pipe, "dataref", Pipe, "read", Pipe>>
        \o dataref.datatype \o <<Pipe>> \o dataref.name

\* The registration left out.
MapPut_Skip(m, k, v) == m

\* A map with one entry set: requestIds[requestId] = name.
MapPut(m, k, v) == [x \in DOMAIN m \cup {k} |-> IF x = k THEN v ELSE m[x]]

\* parse taking the dataref by the position of the id among the registered ids
\* instead of by the name registered under it.
parse_ByPosition(ids, message) ==
    LET parts == Split(message)
        requestId == parts[1]
    IN  IF Len(parts) < 4 THEN [kind |-> "throw", error |-> "RangeError", str |-> EmptyString]
        ELSE IF requestId \notin DOMAIN ids
             THEN [kind |-> "throw", error |-> "StateError", str |-> EmptyString]
             ELSE [kind |-> "return", error |-> "",
                   str |-> datarefs[1].description \o <<": ">> \o parts[4]]

\* DataRefViewModel.parse(message) with the map `ids`.  parts[3] throws a
\* RangeError on fewer than four parts; firstWhere without orElse throws a
\* StateError when no dataref has the looked-up name (null for an unknown id).
parse(ids, message) ==
    LET parts == Split(message)
        requestId == parts[1]
    IN  IF Len(parts) < 4 THEN [kind |-> "throw", error |-> "RangeError", str |-> EmptyString]
        ELSE LET value == parts[4]
                 found == {i \in 1..Len(datarefs) :
                              requestId \in DOMAIN ids /\ datarefs[i].name = ids[requestId]}
             IN  IF found = {}
                 THEN [kind |-> "throw", error |-> "StateError", str |-> EmptyString]
                 ELSE LET dataref == datarefs[CHOOSE i \in found : \A j \in found : i <= j]
                      IN  [kind |-> "return", error |-> "",
                           str |-> dataref.description \o <<": ">> \o value]

----------------------------------------------------------------------------
(* Inputs *)

\* The type tags of the protocol, and one that is not of it.
TypeTags == {<<"int">>, <<"float">>, <<"[int]">>, <<"[float]">>}

UnknownTags == {<<"bool">>}

\* Value fields: literals of each type, the failure sentinel's literal, text
\* that is no number, an array with a bad element, and the empty field.
Values == {
    <<"0", ".", "0">>, <<"0", ".", "5">>, <<"1">>, <<"1", ",", "0">>,
    <<"-", "6", "6", "6", ".", "0">>, <<"abc">>, <<"1", ",", "x">>, EmptyString }

\* Texts in the other forms strconv.ParseFloat reads: an exponent, an
\* infinity, a NaN, a hexadecimal literal, digits with an underscore, and a
\* decimal that is no float32.
FloatTexts == {
    <<"1", "e", "2">>, <<"i", "n", "f">>, <<"N", "a", "N">>,
    <<"0", "x", "1", "p", "-", "2">>, <<"1", "_", "0">>,
    <<"-", "6", "6", "6", ".", "0", "0", "0", "0", "1">> }

RequestIdSpace == {GenerateRequestId(u) : u \in Uuids}

\* A request id no request was given.
StrayIds == {<<"ff", "4f">>}

\* The field lists of the datagrams a client may be handed: the documented
\* response with and without a request id, and datagrams with fewer fields.
LegacyResponses ==
    {<<<<"dataref">>, <<"response">>, t, v>> : t \in TypeTags \cup UnknownTags, v \in Values}

ShortResponses ==
    {<<<<"dataref">>, <<"response">>, x>> : x \in TypeTags \cup Values \cup FloatTexts}
        \cup {<<<<"dataref">>, <<"response">>>>, <<<<"garbage">>>>, <<EmptyString>>}

\* The ids of the datagrams handed to the Flutter client: two that requests may
\* be given, one that none is.
MessageIds == {<<"0a", "4c">>, <<"1b", "4d">>} \cup StrayIds

IdResponses ==
    {<<id, <<"dataref">>, <<"response">>, t, v>> :
        id \in MessageIds,
        t \in {<<"float">>} \cup UnknownTags,
        v \in {<<"0", ".", "5">>, <<"abc">>}}

ShortIdResponses ==
    {<<id, <<"dataref">>, <<"response">>>> : id \in MessageIds}
        \cup {<<id, <<"dataref">>, <<"response">>, <<"float">>>> : id \in MessageIds}
        \cup {<<<<"dataref">>, <<"response">>, <<"float">>, <<"0", ".", "5">>>>,
               <<<<"garbage">>>>, <<EmptyString>>}

\* The datagrams the Go client may receive.
Datagrams ==
    {JoinFields(fs) : fs \in LegacyResponses \cup ShortResponses}
        \cup {JoinFields(<<<<"0a", "4c">>, <<"dataref">>, <<"response">>, <<"float">>,
                            <<"0", ".", "5">>>>)}

\* The datagrams the Flutter client may receive.
Messages == {JoinFields(fs) : fs \in IdResponses \cup ShortIdResponses}

\* The hosts and ports a caller passes: IP literals, a host name, literals with
\* a bad or a missing field, the empty string; a UDP port and a number that is
\* none.
Localhost == <<"1", "2", "7", ".", "0", ".", "0", ".", "1">>

Hosts == {
    Localhost,
    <<"1", "9", "2", ".", "1", "6", "8", ".", "1", ".", "1", "0", "0">>,
    <<"localhost">>,
    <<"2", "5", "6", ".", "0", ".", "0", ".", "1">>,
    <<"1", "2", "7", ".", "0", ".", "0">>,
    <<":", ":", "1">>,
    <<":", ":", "f", "f", "f", "f", ":", "1", "2", "7", ".", "0", ".", "0", ".", "1">>,
    EmptyString }

Ports == {49000, 70000}

TimeoutSecs == {3}

----------------------------------------------------------------------------
(* The codec entry points, one call an action *)

NoCall ==
    [op |-> "none", req |-> EmptyString, resp |-> NilResponse, pending |-> EmptyString,
     out |-> [kind |-> "none"]]

NoRequest == [data |-> EmptyString, ref |-> 0, rid |-> EmptyString, sent |-> FALSE]

\* The goroutines that may call the reader of one UdpClient.
Callers == {1, 2}

NoRead == [op |-> "none", seq |-> 0, data |-> EmptyString, own |-> 0, writes |-> 0, recvs |-> 0]

NoReturn ==
    [op |-> "none", seq |-> 0, req |-> EmptyString, resp |-> NilResponse, from |-> 0, err |-> "",
     writes |-> 0, recvs |-> 0, out |-> [kind |-> "none"]]

InitState ==
    /\ call = NoCall
    /\ requestIds = << >>
    /\ di = 0
    /\ dlast = NoRequest
    /\ gpc = [c \in Callers |-> "idle"]
    /\ gcur = [c \in Callers |-> NoRead]
    /\ gret = [c \in Callers |-> NoReturn]
    /\ wire = {}
    /\ now = 0
    /\ deadline = 0
    /\ nseq = 0
    /\ timedOut = {}
    /\ socket = "null"
    /\ isRunning = FALSE
    /\ binding = 0
    /\ messages = << >>
    /\ fwire = {}
    /\ sockets = 0

Init ==
    /\ program \in {"go", "flutter"}
    /\ noDeadline = FALSE
    /\ InitState

\* A caller constructs a client: NewUdpClient(host, port, timeoutSecs), before
\* anything is read.
GoNewUdpClientCall(host, port, timeoutSecs, sysErr) ==
    /\ program = "go"
    /\ call.op \in {"none", "NewUdpClient"}
    /\ nseq = 0
    /\ call' = [op |-> "NewUdpClient", req |-> host, resp |-> NilResponse,
                pending |-> EmptyString,
                out |-> NewUdpClient(host, port, timeoutSecs, sysErr)]
    /\ UNCHANGED <<program, requestIds, di, dlast>>
    /\ UNCHANGED netVars
    /\ UNCHANGED appVars

\* The read of the demo main.
MainRead ==
    [op |-> "ReadAsFloat", dataref |-> <<"sim/cockpit2/controls/parking_brake_ratio">>,
     dataType |-> <<"float">>]

\* The demo main from its start to its loop: NewUdpClient("127.0.0.1", 49000,
\* 3) and NewDataRefReader(client).  With a nil client the first
\* reader.ReadAsFloat calls SendAndRecv on it, which reads client.connection:
\* a nil pointer dereference, before anything is written.  `slept` is the
\* number of the read after which main last called Sleep, `wake` the time that
\* sleep ends.
GoMainStart(sysErr) ==
    /\ program = "go"
    /\ call.op = "none"
    /\ nseq = 0
    /\ LET client == NewUdpClient(Localhost, 49000, 3, sysErr)
       IN  call' = [op |-> "main", req |-> ReadAsFloatRequest(MainRead.dataref),
                    resp |-> NilResponse, pending |-> EmptyString, client |-> client,
                    slept |-> 0, wake |-> 0,
                    out |-> IF client.nil THEN [kind |-> "panic", failed |-> TRUE]
                            ELSE [kind |-> "none", failed |-> FALSE]]
    /\ UNCHANGED <<program, requestIds, di, dlast>>
    /\ UNCHANGED netVars
    /\ UNCHANGED appVars

\* InternetAddress(host) of dart:io: an ArgumentError for a host that is no
\* numeric address, IPv4 or IPv6.  What follows a "%" (not the first
\* character) is a scope id: none for an IPv4 address, and for an IPv6 address
\* one that the system knows (scopeOk).  The address has the type of its
\* literal.
InternetAddress(host, scopeOk) ==
    LET pcts    == {i \in 1..Len(host) : host[i] = "%"}
        index   == IF pcts = {} THEN 0 ELSE CHOOSE i \in pcts : \A j \in pcts : i <= j
        scoped  == index > 1
        address == IF scoped THEN SubSeq(host, 1, index - 1) ELSE host
        v4      == ParseIPv4(address)
        v6      == ParseIPv6(address)
    IN  [throw |-> \/ ~v4.ok /\ ~v6.ok
                   \/ scoped /\ (v4.ok \/ ~scopeOk),
         type |-> IF v4.ok THEN "IPv4" ELSE "IPv6"]

\* The hosts readFromUDPServer is called with.
DartHosts == {Localhost, <<"localhost">>, <<":", ":", "1">>, <<":", ":", "1", "%", "1">>}

\* InternetAddress(host) for each of these hosts.
DartAddresses ==
    [host \in DartHosts |-> [scopeOk \in BOOLEAN |-> InternetAddress(host, scopeOk)]]

\* UdpClient.send(message, host, port): _socket?.send(message.codeUnits,
\* InternetAddress(host), port), which evaluates nothing on a null socket.
\* The socket is bound to InternetAddress.anyIPv4: whether a datagram for an
\* IPv6 address leaves it is the system's choice (v6Ok), and send returns
\* without throwing either way.
SocketSend(host, scopeOk, v6Ok) ==
    LET address == DartAddresses[host][scopeOk]
    IN  IF socket = "null" THEN [sent |-> FALSE, throw |-> FALSE]
        ELSE IF address.throw THEN [sent |-> FALSE, throw |-> TRUE]
        ELSE IF address.type = "IPv6" /\ ~v6Ok THEN [sent |-> FALSE, throw |-> FALSE]
        ELSE [sent |-> TRUE, throw |-> FALSE]

\* readFromUDPServer(host, port) is called: the for loop starts at the first
\* dataref.
ReadFromUDPServerCall(host) ==
    /\ program = "flutter"
    /\ di = 0
    /\ di' = 1
    /\ call' = [NoCall EXCEPT !.op = "readFromUDPServer", !.req = host]
    /\ UNCHANGED <<program, requestIds, dlast>>
    /\ UNCHANGED netVars
    /\ UNCHANGED appVars

\* One pass of the for loop of readFromUDPServer, Uuid().v4() returning `uuid`:
\* the id is generated, the request built, the id registered and the request
\* handed to _udpViewModel.send, which gives it to the socket, does nothing, or
\* throws and so ends the loop and the call.
ReadFromUDPServerLoop(uuid, scopeOk, v6Ok) ==
    /\ program = "flutter"
    /\ di \in 1..Len(datarefs)
    /\ LET dataref == datarefs[di]
           requestId == GenerateRequestId(uuid)
           data == RequestData(requestId, dataref)
           send == SocketSend(call.req, scopeOk, v6Ok)
       IN  /\ requestIds' = MapPut(requestIds, requestId, dataref.name)
           /\ dlast' = [data |-> data, ref |-> di, rid |-> requestId, sent |-> send.sent]
           /\ fwire' = IF send.sent THEN fwire \cup {[kind |-> "request", bytes |-> data]}
                        ELSE fwire
           /\ di' = IF send.throw \/ di = Len(datarefs) THEN 0 ELSE di + 1
           /\ call' = IF send.throw
                       THEN [call EXCEPT !.out = [kind |-> "throw", error |-> "ArgumentError"]]
                       ELSE IF di = Len(datarefs)
                            THEN [call EXCEPT !.out = [kind |-> "return"]]
                            ELSE call
    /\ UNCHANGED <<program, socket, isRunning, binding, messages, sockets>>
    /\ UNCHANGED netVars

\* parse(message) is called (no loop of readFromUDPServer is running: Dart runs
\* one handler at a time).
DartParseCall(message) ==
    /\ program = "flutter"
    /\ di = 0
    /\ LET id == Split(message)[1]
       IN  call' = [op |-> "parse", req |-> EmptyString, resp |-> Bytes(message),
                    pending |-> IF id \in DOMAIN requestIds THEN requestIds[id] ELSE EmptyString,
                    out |-> parse(requestIds, message)]
    /\ UNCHANGED <<program, requestIds, di, dlast>>
    /\ UNCHANGED netVars
    /\ UNCHANGED appVars

----------------------------------------------------------------------------
(* The Go client on the network: a read step by step through               *)
(* UdpClient.SendAndRecv (client/go/main/udp.go), the responder and the    *)
(* network between them.  A datagram on the wire carries, beside its       *)
(* bytes, the number of the request it belongs to (`for`), which the       *)
(* bytes themselves do not hold.                                           *)

\* How many reads the callers start, how far the clock runs, and the
\* client's timeout in ticks of the clock.
MaxReads == 2

MaxTime == 4

timeout == 2

\* The reads the callers make.
GoReads == {
    [op |-> "Read", dataref |-> <<"sim/cockpit2/controls/parking_brake_ratio">>,
     dataType |-> <<"float">>],
    [op |-> "Read", dataref |-> <<"sim/cockpit2/engine/actuators/eng_master">>,
     dataType |-> <<"[int]">>],
    [op |-> "ReadAsFloat", dataref |-> <<"sim/cockpit2/controls/parking_brake_ratio">>,
     dataType |-> <<"float">>] }

RequestOf(r) ==
    IF r.op = "Read" THEN ReadRequest(r.dataref, r.dataType) ELSE ReadAsFloatRequest(r.dataref)

ReturnOf(op, response) ==
    IF op = "Read" THEN ReadReturn(response) ELSE ReadAsFloatReturn(response)

\* The responder's value of a dataref.
ServerValue(name) ==
    IF name = <<"sim/cockpit2/controls/parking_brake_ratio">>
    THEN <<"0", ".", "5">> ELSE <<"1", ",", "0">>

\* The responder's answer to dataref|read|<type>|<name>:
\* dataref|response|<type>|<value>.
ServerResponse(request) ==
    LET parts == Split(request)
    IN  JoinFields(<<<<"dataref">>, <<"response">>, parts[3], ServerValue(parts[4])>>)

\* The read of caller c returns: SendAndRecv hands `response` to Read or
\* ReadAsFloat, which returns to its caller.  `err` is the error SendAndRecv
\* logged before it returned nil ("" when it returned a datagram).
Finish(c, cur, response, from, err) ==
    /\ gret' = [gret EXCEPT ![c] = [op |-> cur.op, seq |-> cur.seq, req |-> cur.data,
                                    resp |-> response,
                                    from |-> from, err |-> err,
                                    writes |-> cur.writes, recvs |-> cur.recvs,
                                    out |-> ReturnOf(cur.op, response)]]
    /\ gpc' = [gpc EXCEPT ![c] = "idle"]
    /\ gcur' = [gcur EXCEPT ![c] = NoRead]

\* Caller c calls Read or ReadAsFloat, which builds the request and calls
\* SendAndRecv: connection.Write(data), which fails (ok = FALSE) or sends.
Write(c, r, ok) ==
    /\ program = "go"
    /\ gpc[c] = "idle"
    /\ nseq < MaxReads
    /\ nseq' = nseq + 1
    /\ LET cur == [op |-> r.op, seq |-> nseq + 1, data |-> RequestOf(r), own |-> 0,
                   writes |-> 1, recvs |-> 0]
       IN  IF ok
           THEN /\ wire' = wire \cup {[kind |-> "request", for |-> cur.seq, bytes |-> cur.data]}
                /\ gpc' = [gpc EXCEPT ![c] = "deadline"]
                /\ gcur' = [gcur EXCEPT ![c] = cur]
                /\ UNCHANGED gret
           ELSE /\ Finish(c, cur, NilResponse, 0, "write")
                /\ UNCHANGED wire
    /\ UNCHANGED <<program, now, deadline, noDeadline, timedOut>>
    /\ UNCHANGED codecVars
    /\ UNCHANGED appVars

\* The deadline counted from the start of the session instead of from now.
DeadlineFrom_Session(t, d) == d

\* time.Now().Add(client.timeout)
DeadlineFrom(t, d) == t + d

\* connection.SetReadDeadline(time.Now().Add(client.timeout)): the deadline of
\* the connection, which all its callers share.  It fails on a connection that
\* takes no deadline, and then every time.
SetReadDeadline(c) ==
    /\ program = "go"
    /\ gpc[c] = "deadline"
    /\ IF ~noDeadline
       THEN /\ deadline' = DeadlineFrom(now, timeout)
            /\ gpc' = [gpc EXCEPT ![c] = "read"]
            /\ gcur' = [gcur EXCEPT ![c].own = now + timeout]
            /\ UNCHANGED gret
       ELSE /\ Finish(c, gcur[c], NilResponse, 0, "deadline")
            /\ UNCHANGED deadline
    /\ UNCHANGED <<program, wire, now, nseq, noDeadline, timedOut>>
    /\ UNCHANGED codecVars
    /\ UNCHANGED appVars

\* connection.ReadFromUDP(buffer) returns the datagram d, which has arrived
\* before the deadline: whichever datagram the network delivers first.
ReadFromUDP(c, d) ==
    /\ program = "go"
    /\ gpc[c] = "read"
    /\ d \in wire
    /\ d.kind = "response"
    /\ now < deadline
    /\ wire' = wire \ {d}
    /\ Finish(c, [gcur[c] EXCEPT !.recvs = @ + 1], Bytes(d.bytes), d.for, "")
    /\ UNCHANGED <<program, now, deadline, nseq, noDeadline, timedOut>>
    /\ UNCHANGED codecVars
    /\ UNCHANGED appVars

\* The timeout answered by sending the request again and waiting once more.
ReadTimeout_Retry(c) ==
    /\ program = "go"
    /\ gpc[c] = "read"
    /\ now >= deadline
    /\ wire' = wire \cup {[kind |-> "request", for |-> gcur[c].seq, bytes |-> gcur[c].data]}
    /\ gcur' = [gcur EXCEPT ![c].writes = @ + 1, ![c].recvs = @ + 1]
    /\ gpc' = [gpc EXCEPT ![c] = "deadline"]
    /\ UNCHANGED <<program, gret, now, deadline, nseq, noDeadline, timedOut>>
    /\ UNCHANGED codecVars
    /\ UNCHANGED appVars

\* connection.ReadFromUDP(buffer) returns a timeout error: the deadline of the
\* connection has passed.
ReadTimeout(c) ==
    /\ program = "go"
    /\ gpc[c] = "read"
    /\ now >= deadline
    /\ Finish(c, [gcur[c] EXCEPT !.recvs = @ + 1], NilResponse, 0, "timeout")
    /\ timedOut' = timedOut \cup {gcur[c].seq}
    /\ UNCHANGED <<program, wire, now, deadline, nseq, noDeadline>>
    /\ UNCHANGED codecVars
    /\ UNCHANGED appVars

\* connection.ReadFromUDP(buffer) returns another error: connection refused,
\* the responder's host having bounced the request d.
ReadError(c, d) ==
    /\ program = "go"
    /\ gpc[c] = "read"
    /\ d \in wire
    /\ d.kind = "request"
    /\ wire' = wire \ {d}
    /\ Finish(c, [gcur[c] EXCEPT !.recvs = @ + 1], NilResponse, 0, "read")
    /\ UNCHANGED <<program, now, deadline, nseq, noDeadline, timedOut>>
    /\ UNCHANGED codecVars
    /\ UNCHANGED appVars

\* The responder answers a request.
Respond(d) ==
    /\ d \in wire
    /\ d.kind = "request"
    /\ wire' = (wire \ {d})
                  \cup {[kind |-> "response", for |-> d.for, bytes |-> ServerResponse(d.bytes)]}
    /\ UNCHANGED <<program, gpc, gcur, gret, now, deadline, nseq, noDeadline, timedOut>>
    /\ UNCHANGED codecVars
    /\ UNCHANGED appVars

\* The network loses a datagram.
Lose(d) ==
    /\ d \in wire
    /\ wire' = wire \ {d}
    /\ UNCHANGED <<program, gpc, gcur, gret, now, deadline, nseq, noDeadline, timedOut>>
    /\ UNCHANGED codecVars
    /\ UNCHANGED appVars

\* Time passes: up to MaxTime, and beyond it while a caller waits for the
\* deadline of the connection or main for the end of its sleep.
Tick ==
    /\ program = "go"
    /\ \/ now < MaxTime
       \/ \E c \in Callers : gpc[c] = "read" /\ now < deadline
       \/ call.op = "main" /\ call.slept = nseq /\ now < call.wake
    /\ now' = now + 1
    /\ UNCHANGED <<program, gpc, gcur, gret, wire, deadline, nseq, noDeadline, timedOut>>
    /\ UNCHANGED codecVars
    /\ UNCHANGED appVars

InitGo ==
    /\ program = "go"
    /\ noDeadline \in BOOLEAN
    /\ InitState

\* One caller: the reads of one UdpClient follow each other.
NextGo ==
    \/ \E r \in GoReads, ok \in BOOLEAN : Write(1, r, ok)
    \/ SetReadDeadline(1)
    \/ \E d \in wire : ReadFromUDP(1, d)
    \/ ReadTimeout(1)
    \/ \E d \in wire : ReadError(1, d)
    \/ \E d \in wire : Respond(d)
    \/ \E d \in wire : Lose(d)
    \/ Tick

SpecGo == InitGo /\ [][NextGo]_vars

\* The same with what the runtime guarantees: time passes, and a goroutine
\* that can take its next step in SendAndRecv takes it.
SpecGoLive ==
    /\ InitGo
    /\ [][NextGo]_vars
    /\ WF_vars(Tick)
    /\ WF_vars(SetReadDeadline(1))
    /\ WF_vars(ReadTimeout(1))

\* Two callers share the UdpClient, each reading a dataref of its own.
ReadsOf(c) ==
    IF c = 1
    THEN {r \in GoReads : r.dataref = <<"sim/cockpit2/controls/parking_brake_ratio">> /\ r.op = "Read"}
    ELSE {r \in GoReads : r.dataref = <<"sim/cockpit2/engine/actuators/eng_master">>}

NextGoConc ==
    \/ \E c \in Callers : \E r \in ReadsOf(c), ok \in BOOLEAN : Write(c, r, ok)
    \/ \E c \in Callers : SetReadDeadline(c)
    \/ \E c \in Callers, d \in wire : ReadFromUDP(c, d)
    \/ \E c \in Callers : ReadTimeout(c)
    \/ \E c \in Callers, d \in wire : ReadError(c, d)
    \/ \E d \in wire : Respond(d)
    \/ \E d \in wire : Lose(d)
    \/ Tick

SpecGoConc == InitGo /\ [][NextGoConc]_vars

----------------------------------------------------------------------------
(* The calls of the two clients with what the other side may send: the Go    *)
(* reads step by step as above, answered by any datagram; the constructor;   *)
(* the demo main; and readFromUDPServer and parse of the Flutter client.     *)

\* A caller that holds a client makes its first read through it (reads that
\* follow each other and reads of two callers are in SpecGo and SpecGoConc).
GoRead(r, ok) ==
    /\ call.op = "none"
    /\ nseq = 0
    /\ Write(1, r, ok)

\* The loop of main calls reader.ReadAsFloat: at its first pass, and after the
\* sleep that follows a read.
GoMainRead(ok) ==
    /\ call.op = "main"
    /\ ~call.client.nil
    /\ call.slept = nseq
    /\ now >= call.wake
    /\ Write(1, MainRead, ok)

\* ReadAsFloat has returned to main, which calls
\* time.Sleep(time.Duration(3) * time.Second): as long as the client's timeout.
GoMainSleep ==
    /\ program = "go"
    /\ call.op = "main"
    /\ gpc[1] = "idle"
    /\ call.slept < nseq
    /\ call' = [call EXCEPT !.slept = nseq, !.wake = now + timeout]
    /\ UNCHANGED <<program, requestIds, di, dlast>>
    /\ UNCHANGED netVars
    /\ UNCHANGED appVars

\* Whoever answers at the responder's address answers the request of a
\* caller of the library with the datagram `bytes`.
RespondWith(d, bytes) ==
    /\ call.op = "none"
    /\ d \in wire
    /\ d.kind = "request"
    /\ wire' = (wire \ {d}) \cup {[kind |-> "response", for |-> d.for, bytes |-> bytes]}
    /\ UNCHANGED <<program, gpc, gcur, gret, now, deadline, nseq, noDeadline, timedOut>>
    /\ UNCHANGED codecVars
    /\ UNCHANGED appVars

\* The responder answers a request of the demo main.
GoMainRespond(d) ==
    /\ call.op = "main"
    /\ Respond(d)

Next ==
    \/ \E host \in Hosts, port \in Ports, timeoutSecs \in TimeoutSecs, sysErr \in BOOLEAN :
          GoNewUdpClientCall(host, port, timeoutSecs, sysErr)
    \/ \E sysErr \in BOOLEAN : GoMainStart(sysErr)
    \/ \E ok \in BOOLEAN : GoMainRead(ok)
    \/ GoMainSleep
    \/ \E r \in GoReads, ok \in BOOLEAN : GoRead(r, ok)
    \/ SetReadDeadline(1)
    \/ \E d \in wire : ReadFromUDP(1, d)
    \/ ReadTimeout(1)
    \/ \E d \in wire : ReadError(1, d)
    \/ \E d \in wire, bytes \in Datagrams : RespondWith(d, bytes)
    \/ \E d \in wire : GoMainRespond(d)
    \/ Tick
    \/ \E host \in DartHosts : ReadFromUDPServerCall(host)
    \/ \E uuid \in Uuids, scopeOk \in BOOLEAN, v6Ok \in BOOLEAN :
          ReadFromUDPServerLoop(uuid, scopeOk, v6Ok)
    \/ \E message \in Messages : DartParseCall(message)

Spec == Init /\ [][Next]_vars

----------------------------------------------------------------------------
(* The Flutter client as the application runs it: UdpViewModel.start and    *)
(* send, UdpClient.bind and its socket listener, the button that calls      *)
(* readFromUDPServer, and the responder.  Uuid().v4() returns a value it    *)
(* has not returned before.                                                 *)

\* How many calls of start may await their bind at once.
MaxStarts == 2

\* The responder's answer to <id>|dataref|read|<type>|<name>:
\* <id>|dataref|response|<type>|<value>.
FlutterServerResponse(request) ==
    LET parts == Split(request)
    IN  JoinFields(<<parts[1], <<"dataref">>, <<"response">>, parts[4], ServerValue(parts[5])>>)

\* UdpViewModel.start() up to its await: nothing when already running.
StartCall ==
    /\ program = "flutter"
    /\ di = 0
    /\ ~isRunning
    /\ binding < MaxStarts
    /\ binding' = binding + 1
    /\ UNCHANGED <<program, socket, isRunning, messages, fwire, sockets>>
    /\ UNCHANGED codecVars
    /\ UNCHANGED netVars

\* _client.bind() completes and start() goes on: the socket is bound and
\* listened to, onMessage set, _isRunning set.
BindComplete ==
    /\ program = "flutter"
    /\ di = 0
    /\ binding > 0
    /\ binding' = binding - 1
    /\ socket' = "bound"
    /\ sockets' = sockets + 1
    /\ isRunning' = TRUE
    /\ UNCHANGED <<program, messages, fwire>>
    /\ UNCHANGED codecVars
    /\ UNCHANGED netVars

\* The socket listener receives the datagram d, whoever sent it, and calls
\* onMessage, which appends the message to _messages.
OnMessage(d) ==
    /\ program = "flutter"
    /\ di = 0
    /\ socket = "bound"
    /\ d \in fwire
    /\ d.kind \in {"response", "stray"}
    /\ fwire' = fwire \ {d}
    /\ messages' = Append(messages, d.bytes)
    /\ UNCHANGED <<program, socket, isRunning, binding, sockets>>
    /\ UNCHANGED codecVars
    /\ UNCHANGED netVars

\* The responder answers a request of the Flutter client.
FlutterRespond(d) ==
    /\ d \in fwire
    /\ d.kind = "request"
    /\ fwire' = (fwire \ {d}) \cup {[kind |-> "response", bytes |-> FlutterServerResponse(d.bytes)]}
    /\ UNCHANGED <<program, socket, isRunning, binding, messages, sockets>>
    /\ UNCHANGED codecVars
    /\ UNCHANGED netVars

\* The network loses a datagram of the Flutter client.
FlutterLose(d) ==
    /\ d \in fwire
    /\ fwire' = fwire \ {d}
    /\ UNCHANGED <<program, socket, isRunning, binding, messages, sockets>>
    /\ UNCHANGED codecVars
    /\ UNCHANGED netVars

\* The datagrams some other sender may address to the client's port: a
\* response with an id no request was given, and text that is no response.
StrayMessages ==
    {JoinFields(<<id, <<"dataref">>, <<"response">>, <<"float">>, <<"0", ".", "5">>>>) :
        id \in StrayIds} \cup {<<"garbage">>}

\* How many such datagrams arrive in all.
MaxStrays == 1

Strays ==
    Cardinality({d \in fwire : d.kind = "stray"})
        + Cardinality({i \in 1..Len(messages) : messages[i] \in StrayMessages})

\* A datagram that answers no request of the client is sent to its port.
FlutterStray(m) ==
    /\ program = "flutter"
    /\ Strays < MaxStrays
    /\ fwire' = fwire \cup {[kind |-> "stray", bytes |-> m]}
    /\ UNCHANGED <<program, socket, isRunning, binding, messages, sockets>>
    /\ UNCHANGED codecVars
    /\ UNCHANGED netVars

\* The uuids Uuid().v4() has not returned yet.
FreshUuids == {u \in Uuids : GenerateRequestId(u) \notin DOMAIN requestIds}

InitFlutter ==
    /\ program = "flutter"
    /\ noDeadline = FALSE
    /\ InitState

NextFlutter ==
    \/ StartCall
    \/ BindComplete
    \/ \E host \in DartHosts :
          /\ Cardinality(FreshUuids) >= Len(datarefs)
          /\ ReadFromUDPServerCall(host)
    \/ \E uuid \in FreshUuids, scopeOk \in BOOLEAN, v6Ok \in BOOLEAN :
          /\ uuid = CHOOSE u \in FreshUuids : TRUE
          /\ ReadFromUDPServerLoop(uuid, scopeOk, v6Ok)
    \/ \E d \in fwire : OnMessage(d)
    \/ \E d \in fwire : FlutterRespond(d)
    \/ \E d \in fwire : FlutterLose(d)
    \/ \E m \in StrayMessages : FlutterStray(m)

SpecFlutter == InitFlutter /\ [][NextFlutter]_vars

\* The same with what the Dart event loop guarantees: a bind completes, a
\* running loop goes on, an arrived datagram is handed to the listener.  The
\* network and the responder promise nothing.
SpecFlutterLive ==
    /\ InitFlutter
    /\ [][NextFlutter]_vars
    /\ WF_vars(BindComplete)
    /\ WF_vars(\E uuid \in FreshUuids, scopeOk \in BOOLEAN, v6Ok \in BOOLEAN :
                   ReadFromUDPServerLoop(uuid, scopeOk, v6Ok))
    /\ WF_vars(\E d \in fwire : OnMessage(d))

----------------------------------------------------------------------------
(* Properties *)

\* The fields of the datagram the last call of parse was handed.
RespParts == Split(call.resp.bytes)

\* The fields of the datagram the last read of the Go caller was handed.
GoRespParts == Split(gret[1].resp.bytes)

\* dataref|response|<type>|<value>
IsLegacyResponse(parts) ==
    Len(parts) = 4 /\ parts[1] = <<"dataref">> /\ parts[2] = <<"response">>

\* <requestId>|dataref|response|<type>|<value>
IsIdResponse(parts) ==
    Len(parts) = 5 /\ parts[2] = <<"dataref">> /\ parts[3] = <<"response">>

\* A request whose first field is a request id: <id>|dataref|read|<type>|<name>
StartsWithRequestId(data) ==
    LET parts == Split(data)
    IN  Len(parts) = 5 /\ parts[1] # <<"dataref">>
            /\ parts[2] = <<"dataref">> /\ parts[3] = <<"read">>

\* The legacy request: dataref|read|<type>|<name>
IsLegacyRequest(data) ==
    LET parts == Split(data)
    IN  Len(parts) = 4 /\ parts[1] = <<"dataref">> /\ parts[2] = <<"read">>

\* The elements of a comma-separated list.
RECURSIVE SplitCommas(_)
SplitCommas(s) ==
    IF \A i \in 1..Len(s) : s[i] # ","
    THEN <<s>>
    ELSE LET k == CHOOSE i \in 1..Len(s) : s[i] = "," /\ \A j \in 1..(i - 1) : s[j] # ","
         IN  <<SubSeq(s, 1, k - 1)>> \o SplitCommas(SubSeq(s, k + 1, Len(s)))

\* A decimal integer: [+-]digits.
IsInt(s) ==
    LET b == IF Len(s) > 0 /\ s[1] \in {"+", "-"} THEN Tail(s) ELSE s
    IN  Len(b) > 0 /\ \A i \in 1..Len(b) : b[i] \in Digits

\* The value parses under the type tag.
ParsesAs(type, value) ==
    LET elems == SplitCommas(value)
    IN  CASE type = <<"int">> -> IsInt(value)
          [] type = <<"float">> -> ~ParseFloat(value).err
          [] type = <<"[int]">> -> \A i \in 1..Len(elems) : IsInt(elems[i])
          [] type = <<"[float]">> -> \A i \in 1..Len(elems) : ~ParseFloat(elems[i]).err
          [] OTHER -> FALSE

\* A call of Read or ReadAsFloat has returned to the Go caller.
GoCall == gret[1].op \in {"Read", "ReadAsFloat"}

\* C1: in the Go client with one caller, a read that returns a datagram's
\* content returns it from a datagram answering its own request, whatever the
\* network delayed, dropped or reordered.
C1_ReadReturnsOwnResponse ==
    \A c \in Callers :
        (gret[c].op # "none" /\ ~gret[c].resp.nil) => gret[c].from = gret[c].seq

\* C2: with two callers on one UdpClient, each read returns the response to its
\* own request, and while a caller waits in its receive the deadline in force is
\* the one it set itself.
C2_ConcurrentReadsIndependent ==
    \A c \in Callers :
        /\ (gret[c].op # "none" /\ ~gret[c].resp.nil) => gret[c].from = gret[c].seq
        /\ gpc[c] = "read" => deadline = gcur[c].own

\* C3: every request readFromUDPServer hands to the transport has exactly five
\* "|"-separated fields, in the order: the request id registered for it,
\* "dataref", "read", the type of the dataref and its name.
C3_RequestHasFiveFields ==
    dlast.ref # 0 =>
        LET dataref == datarefs[dlast.ref]
        IN  /\ Split(dlast.data) =
                   <<dlast.rid, <<"dataref">>, <<"read">>, dataref.datatype, dataref.name>>
            /\ dlast.rid \in DOMAIN requestIds
            /\ requestIds[dlast.rid] = dataref.name

\* The request for the third dataref (an [int]) has been handed over.
C3_Witness ==
    /\ dlast.ref = 3
    /\ Len(Split(dlast.data)) = 5
    /\ Split(dlast.data)[4] = <<"[int]">>

\* C4 as claimed: every request handed to the transport by Read, ReadAsFloat or
\* readFromUDPServer starts with a request id field.
C4_NoLegacyRequest ==
    /\ GoCall => StartsWithRequestId(gret[1].req)
    /\ dlast.ref # 0 => StartsWithRequestId(dlast.data)

\* C4 as amended: every request readFromUDPServer hands to the transport
\* starts with its request id field, and every request Read or ReadAsFloat
\* builds is the legacy form dataref|read|<type>|<name>, without a request id.
C4_OnlyFlutterSendsRequestId ==
    /\ GoCall => IsLegacyRequest(gret[1].req)
    /\ dlast.ref # 0 =>
           StartsWithRequestId(dlast.data) /\ Split(dlast.data)[1] = dlast.rid

\* ReadAsFloat has built its request, of four fields.
C4_Witness ==
    /\ gret[1].op = "ReadAsFloat"
    /\ Len(Split(gret[1].req)) = 4
    /\ Split(gret[1].req)[1] = <<"dataref">>

\* C5: for a response <requestId>|dataref|response|<type>|<value> whose request
\* id is pending, parse reports the fifth field as the value of the dataref
\* registered under the id.
C5_ParseReportsValueField ==
    (/\ call.op = "parse"
     /\ IsIdResponse(RespParts)
     /\ RespParts[4] \in TypeTags
     /\ call.pending # EmptyString)
    => \E i \in 1..Len(datarefs) :
           /\ datarefs[i].name = call.pending
           /\ call.out.kind = "return"
           /\ call.out.str = datarefs[i].description \o <<": ">> \o RespParts[5]

\* C6: for a response dataref|response|<type>|<value>, Read returns <value>,
\* and ReadAsFloat returns <value> parsed as a float.
C6_ReadReturnsValueField ==
    (/\ GoCall
     /\ ~gret[1].resp.nil
     /\ IsLegacyResponse(GoRespParts)
     /\ GoRespParts[3] \in TypeTags)
    => /\ gret[1].op = "Read" =>
              gret[1].out.kind = "return" /\ gret[1].out.str = GoRespParts[4]
       /\ (gret[1].op = "ReadAsFloat" /\ ~ParseFloat(GoRespParts[4]).err) =>
              /\ gret[1].out.kind = "return"
              /\ gret[1].out.float = ParseFloat(GoRespParts[4]).value

\* C7: a response with too few fields ends the read in its failure result,
\* never in a panic of Read or ReadAsFloat or an exception of parse.
C7_ShortResponseIsReportedFailure ==
    /\ (GoCall /\ ~gret[1].resp.nil /\ Len(GoRespParts) < 4) =>
           gret[1].out.kind = "return" /\ gret[1].out.failed
    /\ (call.op = "parse" /\ Len(RespParts) < 5) => call.out.kind # "throw"

\* C8: a response whose type tag is none of int, float, [int], [float] makes
\* the read fail: no client returns a value decoded from it.
C8_UnknownTypeFails ==
    /\ (/\ GoCall
        /\ ~gret[1].resp.nil
        /\ IsLegacyResponse(GoRespParts)
        /\ GoRespParts[3] \notin TypeTags)
       => gret[1].out.kind = "return" /\ gret[1].out.failed
    /\ (call.op = "parse" /\ IsIdResponse(RespParts) /\ RespParts[4] \notin TypeTags) =>
           call.out.kind # "return"

\* C9: a response whose value does not parse under its type makes the read
\* fail, and the unparsable text is not returned as the read's value.
C9_UnparsableValueFails ==
    (/\ GoCall
     /\ ~gret[1].resp.nil
     /\ IsLegacyResponse(GoRespParts)
     /\ GoRespParts[3] \in TypeTags
     /\ ~ParsesAs(GoRespParts[3], GoRespParts[4]))
    => /\ gret[1].out.kind = "return"
       /\ gret[1].out.failed
       /\ gret[1].op = "Read" => gret[1].out.str # GoRespParts[4]

\* C10: what a successful read returns differs from what a failed read returns:
\* a successful ReadAsFloat does not return InvalidDataRefFloatValue, and a
\* successful Read does not return the empty string.
C10_FailureDistinguishable ==
    /\ (gret[1].op = "ReadAsFloat" /\ gret[1].out.kind = "return" /\ ~gret[1].out.failed) =>
           gret[1].out.float # Float32(InvalidDataRefFloatValue)
    /\ (gret[1].op = "Read" /\ gret[1].out.kind = "return" /\ ~gret[1].out.failed) =>
           gret[1].out.str # EmptyString

\* C11: with one caller, every call of SendAndRecv returns, and the deadline it
\* waits under is its own, one timeout after the call set it: no read returns
\* a timeout before that time, however many calls came before and however long
\* they waited.
C11_CallReturnsAfterOwnWindow ==
    /\ [](gpc[1] = "read" => deadline = gcur[1].own)
    /\ [][(gpc[1] = "read" /\ gret'[1] # gret[1] /\ gret'[1].err = "timeout")
              => now >= gcur[1].own]_vars
    /\ (gpc[1] # "idle") ~> (gpc[1] = "idle")

\* The second call has returned a timeout, later than one window after the
\* start of the session.
C11_Witness ==
    /\ gpc[1] = "idle"
    /\ gret[1].seq = 2
    /\ gret[1].err = "timeout"
    /\ gret[1].resp.nil
    /\ now > timeout

\* C12: one call of Read or ReadAsFloat calls connection.Write once and
\* ReadFromUDP at most once, whether it ends in a value, a timeout, a receive
\* error or a parse failure.
C12_OneRequestOneReceive ==
    \A c \in Callers :
        /\ gcur[c].op # "none" => gcur[c].writes = 1 /\ gcur[c].recvs = 0
        /\ gret[c].op # "none" =>
               /\ gret[c].writes = 1
               /\ gret[c].recvs <= 1
               /\ gret[c].err \in {"write", "deadline"} => gret[c].recvs = 0

\* A read has returned after a timeout, its request written once.
C12_Witness ==
    /\ gpc[1] = "idle"
    /\ gret[1].err = "timeout"
    /\ gret[1].out.failed
    /\ gret[1].writes = 1
    /\ gret[1].recvs = 1

\* C14: once a response carrying a pending request id has been handled (parse
\* has returned for it, or the listener has taken it into the messages), the
\* id is no longer in requestIds.
C14_HandledResponseRemoved ==
    /\ (call.op = "parse" /\ call.out.kind = "return") => RespParts[1] \notin DOMAIN requestIds
    /\ \A i \in 1..Len(messages) : Split(messages[i])[1] \notin DOMAIN requestIds

\* C15: every request id that readFromUDPServer registers is removed from
\* requestIds at some later time, whether a response to it arrives or not.
C15_PendingEventuallyReclaimed ==
    \A id \in RequestIdSpace : (id \in DOMAIN requestIds) ~> (id \notin DOMAIN requestIds)

\* C16: a read never returns the content of a response to a request whose own
\* read has ended in a timeout.
C16_TimedOutStaysFailed ==
    \A c \in Callers :
        (gret[c].op # "none" /\ ~gret[c].resp.nil) => gret[c].from \notin timedOut

\* C17: parse on a message of four or more fields whose request id is not in
\* requestIds does not throw.
C17_UnknownIdIsDiscarded ==
    (call.op = "parse" /\ Len(RespParts) >= 4 /\ call.pending = EmptyString)
    => call.out.kind # "throw"

\* C18: a response whose type tag differs from the type of the request it
\* answers gives the request no value: parse does not return for it, and Read
\* returns its failure result.
C18_TypeMismatchDiscarded ==
    /\ (/\ call.op = "parse"
        /\ IsIdResponse(RespParts)
        /\ \E i \in 1..Len(datarefs) :
               datarefs[i].name = call.pending /\ datarefs[i].datatype # RespParts[4])
       => call.out.kind # "return"
    /\ (/\ gret[1].op = "Read"
        /\ ~gret[1].resp.nil
        /\ IsLegacyResponse(GoRespParts)
        /\ GoRespParts[3] # Split(gret[1].req)[3])
       => gret[1].out.kind = "return" /\ gret[1].out.failed

\* C19: a request that was not given to the socket leaves its caller with a
\* reported failure and no entry in requestIds; a failed connection.Write makes
\* the Go read return its failure result.
C19_SendFailureReported ==
    /\ (dlast.ref # 0 /\ ~dlast.sent) =>
           call.out.kind = "throw" /\ dlast.rid \notin DOMAIN requestIds
    /\ \A c \in Callers :
           (gret[c].op # "none" /\ gret[c].err = "write") =>
               gret[c].out.kind = "return" /\ gret[c].out.failed

\* C20: NewUdpClient returns nil for every host that net.ParseIP does not
\* parse.
C20_InvalidHostGivesNil ==
    (call.op = "NewUdpClient" /\ ParseIP(call.req).nil) => call.out.nil

\* C22: whatever the order in which responses are handed to parse, a response
\* whose request id is registered is attributed to the dataref registered
\* under that id: parse returns that dataref's description.
C22_AttributionByRequestId ==
    (call.op = "parse" /\ IsIdResponse(RespParts) /\ call.pending # EmptyString)
    => \E i \in 1..Len(datarefs) :
           /\ datarefs[i].name = call.pending
           /\ call.out.kind = "return"
           /\ SubSeq(call.out.str, 1, Len(datarefs[i].description) + 1)
                  = datarefs[i].description \o <<": ">>

\* A response to the request of the last dataref has been parsed while the
\* requests of other datarefs are registered too.
C22_Witness ==
    /\ call.op = "parse"
    /\ IsIdResponse(RespParts)
    /\ call.pending = datarefs[4].name
    /\ call.out.kind = "return"
    /\ call.out.str[1] = "Battery On"
    /\ Cardinality(DOMAIN requestIds) >= 2

\* C23: a Read whose SendAndRecv failed to send, to set the deadline or to
\* receive, or timed out, returns the empty string.
C23_ReadFailureReturnsEmpty ==
    \A c \in Callers :
        (gret[c].op = "Read" /\ gret[c].err \in {"write", "deadline", "read", "timeout"})
        => /\ gret[c].resp.nil
           /\ gret[c].out.kind = "return"
           /\ gret[c].out.str = EmptyString

\* A Read has returned after a receive error.
C23_Witness ==
    /\ gpc[1] = "idle"
    /\ gret[1].op = "Read"
    /\ gret[1].err = "read"
    /\ gret[1].out.str = EmptyString

\* C21: every message in the displayed list carries a request id that is in
\* requestIds.
C21_StrayNotDisplayed ==
    \A i \in 1..Len(messages) : Split(messages[i])[1] \in DOMAIN requestIds

\* C24: every request handed to the socket, in flight, answered or received,
\* carries a request id that is in requestIds.
C24_RegisteredBeforeSent ==
    /\ (dlast.ref # 0 /\ dlast.sent) => dlast.rid \in DOMAIN requestIds
    /\ \A d \in fwire :
           d.kind \in {"request", "response"} => Split(d.bytes)[1] \in DOMAIN requestIds
    /\ \A i \in 1..Len(messages) :
           messages[i] \notin StrayMessages => Split(messages[i])[1] \in DOMAIN requestIds

\* The request of the last dataref is in flight and the response to an earlier
\* one has been received.
C24_Witness ==
    /\ dlast.ref = Len(datarefs)
    /\ dlast.sent
    /\ [kind |-> "request", bytes |-> dlast.data] \in fwire
    /\ \E i \in 1..Len(messages) : messages[i] \notin StrayMessages

\* C26: whatever calls of start are made and however they interleave, at most
\* one socket is bound.
C26_StartBindsOnce == sockets <= 1

\* C25: in the demo main, when NewUdpClient has returned nil, the read ends in
\* its failure result and not in a panic.
C25_NilClientReadFails ==
    (call.op = "main" /\ call.client.nil) => call.out.kind = "return" /\ call.out.failed

====
